---- MODULE Spec2Model ----
(***************************************************************************)
(* ImageUploader (src/image-uploader.tsx): an ordered list of photo        *)
(* objects {url, caption} kept in React state, mutated by event handlers   *)
(* and by an asynchronous upload batch, and reported to the parent through *)
(* onUpload.                                                               *)
(*                                                                         *)
(* Photo objects live in a heap (id -> {url, caption}) because the caption *)
(* handler writes into the object it finds in the array: arrays are        *)
(* sequences of ids, and every array the code builds is a fresh sequence   *)
(* over shared objects.                                                    *)
(***************************************************************************)
EXTENDS Integers, Sequences, FiniteSets, TLC

\* ------------------------------------------------------------------ bounds
MaxPhotos == 3
MaxBatch == 2
MaxDuring == 1

\* --------------------------------------------------------------- constants
\* const maxSize = 5 * 1024 * 1024
maxSize == 5 * 1024 * 1024
allowedTypes == {"image/jpeg", "image/png", "image/webp"}

\* error === null
NoError == <<>>

\* Files the user can pick: [name, type, size].
Files ==
  { [name |-> "a.jpg", type |-> "image/jpeg", size |-> maxSize],
    [name |-> "b.webp", type |-> "image/webp", size |-> 1024],
    [name |-> "c.png", type |-> "image/png", size |-> maxSize + 1],
    [name |-> "d.gif", type |-> "image/gif", size |-> 1024] }

\* What the user can type into the URL field.
UrlTexts == {"", "not a url", "https://example.com/a.jpg"}

\* What the user can type into a caption field.
CaptionTexts == {"", "hi"}

\* Values uuidv4() can return.
Uuids == {"u1"}

\* error.message values the storage client can report.
StorageErrors == {"storage: upload failed"}

VARIABLES
  mounted,        \* the mount effect has run
  existingPhotos, \* the existingPhotos prop: the caller's array
  heap,           \* photo objects: id -> [url, caption]
  photos,         \* useState photos
  uploading,      \* useState uploading
  error,          \* useState error: NoError or <<message>>
  imageUrl,       \* useState imageUrl
  parentPhotos,   \* <<>> before any onUpload call, else <<array last passed>>
  pc,             \* uploadFiles: "idle" or "upload" (awaiting storage.upload)
  batchPhotos,    \* the photos array uploadFiles closed over
  validFiles,     \* uploadFiles: validFiles
  idx,            \* uploadFiles: position of the file being uploaded
  filePath,       \* uploadFiles: filePath of the file being uploaded
  uploadedPhotos, \* uploadFiles: uploadedPhotos
  during,         \* list updates by other handlers while the batch is in flight
  lastOp          \* the step that last set the list or ended a batch: [op, a, b],
                  \* a the direction of a move, the span of a drag, the files of
                  \* a finished batch or the position of the file that failed,
                  \* b the list updates other handlers made during the batch

vars == <<mounted, existingPhotos, heap, photos, uploading, error, imageUrl,
          parentPhotos, pc, batchPhotos, validFiles, idx, filePath,
          uploadedPhotos, during, lastOp>>

\* ----------------------------------------------------------------- helpers
Range(s) == {s[i] : i \in 1..Len(s)}

Min(S) == CHOOSE x \in S : \A y \in S : x <= y

\* The array's contents, object by object.
Val(arr, h) == [i \in 1..Len(arr) |-> h[arr[i]]]

\* The array inside parentPhotos, <<>> when onUpload was never called.
ParentArr(pp) == IF pp = <<>> THEN <<>> ELSE pp[1]

\* An id no object has yet: the identity of a newly created object literal.
FreshId(h) == Len(h) + 1

\* The heap h with a new object obj.
Alloc(h, obj) == Append(h, obj)

Op(name, a, b) == [op |-> name, a |-> a, b |-> b]

\* How far a drag from index from to index to moves the entry, -1 with no target.
Span(from, to) == IF to < 0 THEN -1 ELSE IF to > from THEN to - from ELSE from - to

Max(S) == CHOOSE x \in S : \A y \in S : x >= y

\* ------------------------------------------------------------ JS strings
Char(s, i) == SubSeq(s, i, i)

WhiteSpace == {" ", "\t", "\n", "\r"}

\* String.prototype.trim
Trim(s) ==
  LET keep == {i \in 1..Len(s) : Char(s, i) \notin WhiteSpace}
  IN IF keep = {} THEN "" ELSE SubSeq(s, Min(keep), Max(keep))

LowerAlpha == "abcdefghijklmnopqrstuvwxyz"
UpperAlpha == "ABCDEFGHIJKLMNOPQRSTUVWXYZ"
Alpha == {Char(LowerAlpha, i) : i \in 1..26} \cup {Char(UpperAlpha, i) : i \in 1..26}
Digit == {"0", "1", "2", "3", "4", "5", "6", "7", "8", "9"}

LowerChar(c) ==
  IF \E i \in 1..26 : Char(UpperAlpha, i) = c
  THEN Char(LowerAlpha, CHOOSE i \in 1..26 : Char(UpperAlpha, i) = c)
  ELSE c

RECURSIVE ToLower(_)
ToLower(s) == IF s = "" THEN "" ELSE LowerChar(Char(s, 1)) \o ToLower(SubSeq(s, 2, Len(s)))

\* Schemes whose URLs must name a host.
HostSchemes == {"http", "https", "ftp", "ws", "wss"}
ForbiddenHostChars == {" ", "<", ">", "[", "]", "^", "|", "\\"}

\* new URL(text) does not throw: the text, less surrounding white space, starts
\* with a scheme (a letter, then letters, digits, +, -, .) and a colon, and for
\* the schemes that need a host a non-empty host without forbidden characters
\* follows the slashes.
ParsesAsURL(text) ==
  LET s == Trim(text)
      n == Len(s)
      colons == {i \in 1..n : Char(s, i) = ":"}
  IN /\ colons # {}
     /\ LET c == Min(colons)
            scheme == ToLower(SubSeq(s, 1, c - 1))
            body == {i \in (c + 1)..n : Char(s, i) \notin {"/", "\\"}}
            hostStart == IF body = {} THEN n + 1 ELSE Min(body)
            stops == {i \in hostStart..n : Char(s, i) \in {"/", "?", "#"}}
            hostEnd == IF stops = {} THEN n ELSE Min(stops) - 1
        IN /\ c > 1
           /\ Char(s, 1) \in Alpha
           /\ \A i \in 2..(c - 1) : Char(s, i) \in Alpha \cup Digit \cup {"+", "-", "."}
           /\ scheme \in HostSchemes =>
                /\ hostStart <= hostEnd
                /\ \A i \in hostStart..hostEnd : Char(s, i) \notin ForbiddenHostChars

\* ParsesAsURL and the blank test over the texts the user can type, computed once.
UrlParses == [t \in UrlTexts |-> ParsesAsURL(t)]
IsBlank == [t \in UrlTexts |-> Trim(t) = ""]

\* ------------------------------------------------------------- JS arrays
\* Array.prototype.splice's start index, clamped as the language does.
ClampStart(start, len) ==
  IF start < 0 THEN (IF len + start < 0 THEN 0 ELSE len + start)
  ELSE (IF start > len THEN len ELSE start)

\* arr after arr.splice(start, 1).
SpliceOut(arr, start) ==
  LET s == ClampStart(start, Len(arr))
  IN IF s >= Len(arr) THEN arr
     ELSE SubSeq(arr, 1, s) \o SubSeq(arr, s + 2, Len(arr))

\* What arr.splice(start, 1) returns: the removed elements.
SpliceRemoved(arr, start) ==
  LET s == ClampStart(start, Len(arr))
  IN IF s >= Len(arr) THEN <<>> ELSE <<arr[s + 1]>>

\* arr after arr.splice(start, 0, item).
SpliceIn(arr, start, item) ==
  LET s == ClampStart(start, Len(arr))
  IN SubSeq(arr, 1, s) \o <<item>> \o SubSeq(arr, s + 1, Len(arr))

\* The filter keeping the entries before index only.
FilterOut_Before(arr, index) == SubSeq(arr, 1, ClampStart(index, Len(arr)))

\* photos.filter((_, i) => i !== index)
FilterOut(arr, index) ==
  LET keep == [i \in 1..Len(arr) |-> i - 1 # index]
      F[i \in 0..Len(arr)] ==
        IF i = 0 THEN <<>>
        ELSE IF keep[i] THEN Append(F[i - 1], arr[i]) ELSE F[i - 1]
  IN F[Len(arr)]

\* ------------------------------------------------------ handlers, as functions
\* movePhoto inserting the entry before taking it out of its old place.
MovePhoto_InsertFirst(arr, from, to) ==
  IF to < 0 \/ to >= Len(arr) THEN <<>>
  ELSE <<SpliceOut(SpliceIn(arr, to, arr[from + 1]), from)>>

\* movePhoto without its test of the target index.
MovePhoto_Unguarded(arr, from, to) ==
  LET moved == SpliceRemoved(arr, from)
      updated == SpliceOut(arr, from)
  IN IF moved = <<>> THEN <<arr>> ELSE <<SpliceIn(updated, to, moved[1])>>

\* movePhoto's array: <<>> when it returns early, else <<updated>>.
MovePhoto(arr, from, to) ==
  IF to < 0 \/ to >= Len(arr) THEN <<>>
  ELSE LET moved == SpliceRemoved(arr, from)
           updated == SpliceOut(arr, from)
       IN <<SpliceIn(updated, to, moved[1])>>

\* arrayMove exchanging the two entries instead of moving one.
ArrayMove_Swap(arr, from, to) ==
  LET at == IF to < 0 THEN Len(arr) + to ELSE to
  IN [i \in 1..Len(arr) |->
        IF i = from + 1 THEN arr[at + 1] ELSE IF i = at + 1 THEN arr[from + 1] ELSE arr[i]]

\* arrayMove of @dnd-kit/sortable: the insertion index is computed on the
\* copy before the dragged entry is taken out of it.
ArrayMove(arr, from, to) ==
  LET at == IF to < 0 THEN Len(arr) + to ELSE to
      moved == SpliceRemoved(arr, from)
      rest == SpliceOut(arr, from)
  IN IF moved = <<>> THEN arr ELSE SpliceIn(rest, at, moved[1])

\* The sortable item id of the entry at index i: `photo-${i}`.
PhotoId(i) == <<"photo", i>>

\* over?.id when over is null.
Undefined == <<"undefined">>
Null == <<>>
IdOf(item) == IF item = Null THEN Undefined ELSE item.id

\* photos.findIndex((_, i) => `photo-${i}` === id)
FindIndex(arr, id) ==
  LET hits == {i \in 0..(Len(arr) - 1) : PhotoId(i) = id}
  IN IF hits = {} THEN -1 ELSE Min(hits)

\* The filter refusing a file of exactly maxSize.
IsValid_Strict(file) == file.type \in allowedTypes /\ file.size < maxSize

\* The file passes the filter of uploadFiles.
IsValid(file) == file.type \in allowedTypes /\ file.size <= maxSize

\* What the filter callback passes to setError for a file, NoError if nothing.
ValidationError(file) ==
  IF file.type \notin allowedTypes
  THEN <<"Unsupported file type: " \o file.name>>
  ELSE IF file.size > maxSize
  THEN <<"File too large: " \o file.name \o " (Max: 5MB)">>
  ELSE NoError

\* Array.from(files).filter(...)
FilterValid(files) == SelectSeq(files, IsValid)

\* The filter keeping the message of the first file it refuses.
ErrorAfterFilter_First(files, err) ==
  LET bad == {i \in 1..Len(files) : ValidationError(files[i]) # NoError}
  IN IF bad = {} THEN err ELSE ValidationError(files[Min(bad)])

\* The error state after the filter ran over files, starting from err.
ErrorAfterFilter(files, err) ==
  LET F[i \in 0..Len(files)] ==
        IF i = 0 THEN err
        ELSE IF ValidationError(files[i]) # NoError
        THEN ValidationError(files[i]) ELSE F[i - 1]
  IN F[Len(files)]

\* `${uuidv4()}_${file.name}`
FileName(uuid, name) == uuid \o "_" \o name

\* The public URL the storage service issues for a path of bucket "locations".
PublicUrl(path) == "https://storage.test/locations/" \o path

\* What storage.upload can resolve to, or reject with.
UploadOutcomes ==
  {[kind |-> "ok", message |-> ""]}
    \cup {[kind |-> "error", message |-> m] : m \in StorageErrors}
    \cup {[kind |-> "reject", message |-> ""]}

\* data.publicUrl of getPublicUrl: the URL, or nothing.
PublicUrlOutcomes(path) == {PublicUrl(path), ""}

\* Sequences over S of length at most n.
SeqsUpTo(S, n) == UNION {[1..k -> S] : k \in 0..n}

\* The selections a file picker can deliver.
FileSelections == SeqsUpTo(Files, MaxBatch)

\* Selections of one valid and one invalid file only.
FewFiles == {f \in Files : f.name \in {"a.jpg", "d.gif"}}
FewSelections == SeqsUpTo(FewFiles, MaxBatch)

\* storage.upload resolving, with or without an error.
ResolvedOutcomes == {o \in UploadOutcomes : o.kind # "reject"}

\* Every public URL the storage service can issue, and none.
PublicUrls == {""} \cup {PublicUrl(FileName(u, f.name)) : u \in Uuids, f \in Files}

\* The caller's existingPhotos arrays, with the objects they hold.
Seeds ==
  { [arr |-> <<>>, objs |-> <<>>],
    [arr |-> <<1, 2>>,
     objs |-> << [url |-> "https://cdn.test/s1.jpg", caption |-> "hi"],
                 [url |-> "https://cdn.test/s2.jpg", caption |-> ""] >>],
    [arr |-> <<1, 1>>,
     objs |-> << [url |-> "https://cdn.test/s1.jpg", caption |-> "hi"] >>] }

\* Object identities are opaque. After a step the objects no array refers to
\* any more are dropped and the others are numbered in the order in which
\* existingPhotos, photos, batchPhotos, uploadedPhotos and the parent's array
\* first mention them, so that two states that differ only in the numbering of
\* their objects are one state.
Mentions(ex, ph, pp, bp, up) == ex \o ph \o bp \o up \o ParentArr(pp)

\* The new number of every object order mentions.
Numbering(order) ==
  LET F[i \in 0..Len(order)] ==
        IF i = 0 THEN <<>>
        ELSE LET prev == F[i - 1]
             IN IF order[i] \in Range(prev) THEN prev ELSE Append(prev, order[i])
      kept == F[Len(order)]
  IN [id \in Range(kept) |-> CHOOSE r \in 1..Len(kept) : kept[r] = id]

Renamed(num, arr) == [i \in 1..Len(arr) |-> num[arr[i]]]

RenamedHeap(num, h) ==
  [r \in 1..Cardinality(DOMAIN num) |-> h[CHOOSE id \in DOMAIN num : num[id] = r]]

\* ------------------------------------------------------------------ state
Init ==
  /\ \E seed \in Seeds :
       /\ existingPhotos = seed.arr
       /\ heap = seed.objs
  /\ mounted = FALSE
  /\ photos = <<>>
  /\ uploading = FALSE
  /\ error = NoError
  /\ imageUrl = ""
  /\ parentPhotos = <<>>
  /\ pc = "idle"
  /\ batchPhotos = <<>>
  /\ validFiles = <<>>
  /\ idx = 0
  /\ filePath = ""
  /\ uploadedPhotos = <<>>
  /\ during = 0
  /\ lastOp = Op("init", 0, 0)

\* The arrays and the heap after a step that leaves them as ph, pp, bp, up, h.
Commit(ph, pp, bp, up, h) ==
  LET num == Numbering(Mentions(existingPhotos, ph, pp, bp, up))
  IN /\ photos' = Renamed(num, ph)
     /\ parentPhotos' = IF pp = <<>> THEN <<>> ELSE <<Renamed(num, pp[1])>>
     /\ batchPhotos' = Renamed(num, bp)
     /\ uploadedPhotos' = Renamed(num, up)
     /\ heap' = RenamedHeap(num, h)

objVars == <<photos, parentPhotos, batchPhotos, uploadedPhotos, heap>>
loopVars == <<pc, validFiles, idx, filePath>>

\* updatePhotos without its onUpload call.
UpdatePhotos_NoNotify(newPhotos, h) ==
  /\ pc = "upload" => during < MaxDuring
  /\ Commit(newPhotos, parentPhotos, batchPhotos, uploadedPhotos, h)
  /\ during' = IF pc = "upload" THEN during + 1 ELSE during

\* updatePhotos(newPhotos), called by a handler other than uploadFiles, over
\* the heap h the handler leaves.
UpdatePhotos(newPhotos, h) ==
  /\ pc = "upload" => during < MaxDuring
  /\ Commit(newPhotos, <<newPhotos>>, batchPhotos, uploadedPhotos, h)
  /\ during' = IF pc = "upload" THEN during + 1 ELSE during

\* useEffect(() => {...}, []): runs once, after the first render.
Mount ==
  /\ ~mounted
  /\ mounted' = TRUE
  /\ photos' = IF Len(existingPhotos) > 0 THEN existingPhotos ELSE photos
  /\ lastOp' = Op("mount", 0, 0)
  /\ UNCHANGED <<existingPhotos, heap, uploading, error, imageUrl, parentPhotos,
                 batchPhotos, uploadedPhotos, loopVars, during>>

\* The effect with existingPhotos among its dependencies: it runs again.
Rerender_Reseeds(seed) ==
  /\ mounted
  /\ LET ex == [i \in 1..Len(seed.arr) |-> Len(heap) + seed.arr[i]]
         h == heap \o seed.objs
         ph == IF Len(ex) > 0 THEN ex ELSE photos
         num == Numbering(Mentions(ex, ph, parentPhotos, batchPhotos, uploadedPhotos))
     IN /\ existingPhotos' = Renamed(num, ex)
        /\ photos' = Renamed(num, ph)
        /\ parentPhotos' = IF parentPhotos = <<>> THEN <<>>
                           ELSE <<Renamed(num, parentPhotos[1])>>
        /\ batchPhotos' = Renamed(num, batchPhotos)
        /\ uploadedPhotos' = Renamed(num, uploadedPhotos)
        /\ heap' = RenamedHeap(num, h)
  /\ UNCHANGED <<mounted, uploading, error, imageUrl, loopVars, during, lastOp>>

\* The parent renders the component again with another existingPhotos array
\* of new objects. The effect's dependency list is empty: it does not run.
Rerender(seed) ==
  /\ mounted
  /\ LET ex == [i \in 1..Len(seed.arr) |-> Len(heap) + seed.arr[i]]
         h == heap \o seed.objs
         ph == photos
         num == Numbering(Mentions(ex, ph, parentPhotos, batchPhotos, uploadedPhotos))
     IN /\ existingPhotos' = Renamed(num, ex)
        /\ photos' = Renamed(num, ph)
        /\ parentPhotos' = IF parentPhotos = <<>> THEN <<>>
                           ELSE <<Renamed(num, parentPhotos[1])>>
        /\ batchPhotos' = Renamed(num, batchPhotos)
        /\ uploadedPhotos' = Renamed(num, uploadedPhotos)
        /\ heap' = RenamedHeap(num, h)
  /\ UNCHANGED <<mounted, uploading, error, imageUrl, loopVars, during, lastOp>>

\* onChange of the URL input: setImageUrl(e.target.value)
SetImageUrl(text) ==
  /\ mounted
  /\ text # imageUrl
  /\ imageUrl' = text
  /\ UNCHANGED lastOp
  /\ UNCHANGED <<mounted, existingPhotos, objVars, uploading, error, loopVars, during>>

\* handleAddUrl without setImageUrl("").
HandleAddUrl_NoClear ==
  IF imageUrl = ""
  THEN UNCHANGED <<objVars, error, imageUrl, during, lastOp>>
  ELSE IF ~UrlParses[imageUrl]
  THEN /\ error' = <<"Invalid URL format.">>
       /\ UNCHANGED <<objVars, imageUrl, during, lastOp>>
  ELSE /\ Len(photos) < MaxPhotos
       /\ UpdatePhotos(Append(photos, FreshId(heap)),
                       Alloc(heap, [url |-> imageUrl, caption |-> ""]))
       /\ lastOp' = Op("addUrl", 0, 0)
       /\ UNCHANGED <<error, imageUrl>>

\* handleAddUrl
HandleAddUrl ==
  IF imageUrl = ""
  THEN /\ UNCHANGED lastOp
       /\ UNCHANGED <<objVars, error, imageUrl, during>>
  ELSE IF ~UrlParses[imageUrl]
  THEN /\ error' = <<"Invalid URL format.">>
       /\ UNCHANGED lastOp
       /\ UNCHANGED <<objVars, imageUrl, during>>
  ELSE /\ Len(photos) < MaxPhotos
       /\ UpdatePhotos(Append(photos, FreshId(heap)),
                       Alloc(heap, [url |-> imageUrl, caption |-> ""]))
       /\ imageUrl' = ""
       /\ lastOp' = Op("addUrl", 0, 0)
       /\ UNCHANGED error

\* A click on the Add button, which is disabled while the text is blank.
ClickAdd ==
  /\ mounted
  /\ IF IsBlank[imageUrl]
     THEN /\ UNCHANGED lastOp
          /\ UNCHANGED <<objVars, error, imageUrl, during>>
     ELSE HandleAddUrl
  /\ UNCHANGED <<mounted, existingPhotos, uploading, loopVars>>

\* removePhoto(index), from the row's X button
RemovePhoto(index) ==
  /\ mounted
  /\ index \in 0..(Len(photos) - 1)
  /\ UpdatePhotos(FilterOut(photos, index), heap)
  /\ lastOp' = Op("remove", 0, 0)
  /\ UNCHANGED <<mounted, existingPhotos, uploading, error, imageUrl, loopVars>>

\* movePhoto(from, to), from a row's arrow button at index from; the button is
\* disabled on the first row (up) and on the last row (down).
ClickMove(from, to) ==
  /\ mounted
  /\ from \in 0..(Len(photos) - 1)
  /\ to \in {from - 1, from + 1}
  /\ LET disabled == IF to < from THEN from = 0 ELSE from = Len(photos) - 1
         res == MovePhoto(photos, from, to)
     IN IF disabled \/ res = <<>>
        THEN /\ UNCHANGED lastOp
             /\ UNCHANGED <<objVars, during>>
        ELSE /\ UpdatePhotos(res[1], heap)
             /\ lastOp' = Op("move", to - from, 0)
  /\ UNCHANGED <<mounted, existingPhotos, uploading, error, imageUrl, loopVars>>

\* handleDragEnd(event): active is a row of the list, over a row or null.
HandleDragEnd(active, over) ==
  /\ mounted
  /\ IF active.id # IdOf(over)
     THEN LET oldIndex == FindIndex(photos, active.id)
              newIndex == FindIndex(photos, IdOf(over))
          IN /\ UpdatePhotos(ArrayMove(photos, oldIndex, newIndex), heap)
             /\ lastOp' = Op("drag", Span(oldIndex, newIndex), 0)
     ELSE /\ UNCHANGED lastOp
          /\ UNCHANGED <<objVars, during>>
  /\ UNCHANGED <<mounted, existingPhotos, uploading, error, imageUrl, loopVars>>

\* The drag events the sortable list can deliver for the rendered rows.
DragEnd ==
  \E a \in 0..(Len(photos) - 1) :
    \E over \in {Null} \cup {[id |-> PhotoId(i)] : i \in 0..(Len(photos) - 1)} :
      HandleDragEnd([id |-> PhotoId(a)], over)

\* onCaptionChange(caption) of the row at index: writes the caption into the
\* object the array holds, then passes a copy of the array to updatePhotos.
CaptionChange(index, caption) ==
  /\ mounted
  /\ index \in 0..(Len(photos) - 1)
  /\ caption # heap[photos[index + 1]].caption
  /\ LET updated == photos
     IN UpdatePhotos(updated, [heap EXCEPT ![updated[index + 1]].caption = caption])
  /\ lastOp' = Op("caption", 0, 0)
  /\ UNCHANGED <<mounted, existingPhotos, uploading, error, imageUrl, loopVars>>

\* [...photos, ...uploadedPhotos] with the new entries first.
Appended_Prepend(prior, uploaded) == uploaded \o prior

\* [...photos, ...uploadedPhotos]
Appended(prior, uploaded) == prior \o uploaded

\* The file input never disabled.
FileInputDisabled_Never == FALSE

\* disabled={uploading} of the file input
FileInputDisabled == uploading

\* handleImageUpload(event) and uploadFiles(files) up to its first await. The
\* file input delivers no change event while it is disabled.
HandleImageUpload(files, uuid) ==
  /\ mounted
  /\ ~FileInputDisabled
  /\ IF Len(files) = 0
     THEN /\ error' = <<"Please select at least one file.">>
          /\ UNCHANGED lastOp
          /\ UNCHANGED <<uploading, objVars, loopVars, during>>
     ELSE LET valid == FilterValid(files)
          IN /\ error' = ErrorAfterFilter(files, NoError)
             /\ IF Len(valid) = 0
                THEN /\ UNCHANGED lastOp
                     /\ UNCHANGED <<uploading, objVars, loopVars, during>>
                ELSE /\ Len(photos) + MaxBatch <= MaxPhotos
                     /\ uploading' = TRUE
                     /\ pc' = "upload"
                     /\ validFiles' = valid
                     /\ idx' = 1
                     /\ filePath' = FileName(uuid, valid[1].name)
                     /\ during' = 0
                     /\ UNCHANGED lastOp
                     /\ Commit(photos, parentPhotos, photos, <<>>, heap)
  /\ UNCHANGED <<mounted, existingPhotos, imageUrl>>

\* The catch block appending what was uploaded before the failure.
BatchFails_KeepsPartial(message) ==
  /\ error' = <<message>>
  /\ uploading' = FALSE
  /\ pc' = "idle"
  /\ validFiles' = <<>>
  /\ idx' = 0
  /\ filePath' = ""
  /\ during' = 0
  /\ lastOp' = Op("batchFail", idx, during)
  /\ Commit(batchPhotos \o uploadedPhotos, <<batchPhotos \o uploadedPhotos>>, <<>>, <<>>, heap)

\* The catch block without the finally block.
BatchFails_NoFinally(message) ==
  /\ error' = <<message>>
  /\ pc' = "idle"
  /\ validFiles' = <<>>
  /\ idx' = 0
  /\ filePath' = ""
  /\ during' = 0
  /\ lastOp' = Op("batchFail", idx, during)
  /\ Commit(photos, parentPhotos, <<>>, <<>>, heap)
  /\ UNCHANGED uploading

\* The catch and finally blocks of uploadFiles.
BatchFails(message) ==
  /\ error' = <<message>>
  /\ uploading' = FALSE
  /\ pc' = "idle"
  /\ validFiles' = <<>>
  /\ idx' = 0
  /\ filePath' = ""
  /\ during' = 0
  /\ lastOp' = Op("batchFail", idx, during)
  /\ Commit(photos, parentPhotos, <<>>, <<>>, heap)

\* uploadFiles going on to the next file without pushing the entry of the
\* file that was uploaded.
UploadReturns_NoPush(outcome, publicUrl, uuid) ==
  /\ pc = "upload"
  /\ publicUrl \in PublicUrlOutcomes(filePath)
  /\ IF outcome.kind = "reject"
     THEN BatchFails("An unknown error occurred")
     ELSE IF outcome.kind = "error"
     THEN BatchFails(outcome.message)
     ELSE IF publicUrl = ""
     THEN BatchFails("Failed to retrieve public URL")
     ELSE LET h == Alloc(heap, [url |-> publicUrl, caption |-> ""])
              uploaded == Append(uploadedPhotos, FreshId(heap))
          IN IF idx < Len(validFiles)
             THEN /\ idx' = idx + 1
                  /\ filePath' = FileName(uuid, validFiles[idx + 1].name)
                  /\ UNCHANGED lastOp
                  /\ Commit(photos, parentPhotos, batchPhotos, uploadedPhotos, heap)
                  /\ UNCHANGED <<uploading, error, pc, validFiles, during>>
             ELSE LET newPhotos == Appended(batchPhotos, uploaded)
                  IN /\ uploading' = FALSE
                     /\ pc' = "idle"
                     /\ validFiles' = <<>>
                     /\ idx' = 0
                     /\ filePath' = ""
                     /\ during' = 0
                     /\ lastOp' = Op("batchDone", Len(validFiles), during)
                     /\ Commit(newPhotos, <<newPhotos>>, <<>>, <<>>, h)
                     /\ UNCHANGED error
  /\ UNCHANGED <<mounted, existingPhotos, imageUrl>>

\* uploadFiles from the return of storage.upload to its next await or its end.
UploadReturns(outcome, publicUrl, uuid) ==
  /\ pc = "upload"
  /\ publicUrl \in PublicUrlOutcomes(filePath)
  /\ IF outcome.kind = "reject"
     THEN BatchFails("An unknown error occurred")
     ELSE IF outcome.kind = "error"
     THEN BatchFails(outcome.message)
     ELSE IF publicUrl = ""
     THEN BatchFails("Failed to retrieve public URL")
     ELSE LET h == Alloc(heap, [url |-> publicUrl, caption |-> ""])
              uploaded == Append(uploadedPhotos, FreshId(heap))
          IN IF idx < Len(validFiles)
             THEN /\ idx' = idx + 1
                  /\ filePath' = FileName(uuid, validFiles[idx + 1].name)
                  /\ UNCHANGED lastOp
                  /\ Commit(photos, parentPhotos, batchPhotos, uploaded, h)
                  /\ UNCHANGED <<uploading, error, pc, validFiles, during>>
             ELSE LET newPhotos == Appended(batchPhotos, uploaded)
                  IN /\ uploading' = FALSE
                     /\ pc' = "idle"
                     /\ validFiles' = <<>>
                     /\ idx' = 0
                     /\ filePath' = ""
                     /\ during' = 0
                     /\ lastOp' = Op("batchDone", Len(validFiles), during)
                     /\ Commit(newPhotos, <<newPhotos>>, <<>>, <<>>, h)
                     /\ UNCHANGED error
  /\ UNCHANGED <<mounted, existingPhotos, imageUrl>>

\* Every handler, with the smaller sets of selections and storage outcomes.
Next ==
  \/ Mount
  \/ \E text \in UrlTexts : SetImageUrl(text)
  \/ ClickAdd
  \/ \E index \in 0..(MaxPhotos - 1) : RemovePhoto(index)
  \/ \E from \in 0..(MaxPhotos - 1) : \E to \in {from - 1, from + 1} : ClickMove(from, to)
  \/ DragEnd
  \/ \E index \in 0..(MaxPhotos - 1) : \E caption \in CaptionTexts :
       CaptionChange(index, caption)
  \/ \E files \in FewSelections : \E uuid \in Uuids : HandleImageUpload(files, uuid)
  \/ \E outcome \in ResolvedOutcomes : \E uuid \in Uuids : \E publicUrl \in PublicUrls :
       UploadReturns(outcome, publicUrl, uuid)

Spec == Init /\ [][Next]_vars

\* The handlers that run to completion: the list without uploads.
NextList ==
  \/ Mount
  \/ \E text \in UrlTexts : SetImageUrl(text)
  \/ ClickAdd
  \/ \E index \in 0..(MaxPhotos - 1) : RemovePhoto(index)
  \/ \E from \in 0..(MaxPhotos - 1) : \E to \in {from - 1, from + 1} : ClickMove(from, to)
  \/ DragEnd
  \/ \E index \in 0..(MaxPhotos - 1) : \E caption \in CaptionTexts :
       CaptionChange(index, caption)

SpecList == Init /\ [][NextList]_vars

\* Uploads with every selection and every storage outcome, among the handlers
\* that reorder, shorten or caption the list.
NextUpload ==
  \/ Mount
  \/ \E index \in 0..(MaxPhotos - 1) : RemovePhoto(index)
  \/ \E from \in 0..(MaxPhotos - 1) : \E to \in {from - 1, from + 1} : ClickMove(from, to)
  \/ DragEnd
  \/ \E index \in 0..(MaxPhotos - 1) : \E caption \in CaptionTexts :
       CaptionChange(index, caption)
  \/ \E files \in FileSelections : \E uuid \in Uuids : HandleImageUpload(files, uuid)
  \/ \E outcome \in UploadOutcomes : \E uuid \in Uuids : \E publicUrl \in PublicUrls :
       UploadReturns(outcome, publicUrl, uuid)

SpecUpload == Init /\ [][NextUpload]_vars

\* The seeded list under changes of the existingPhotos prop.
NextSeed ==
  \/ Mount
  \/ \E seed \in Seeds : Rerender(seed)
  \/ \E index \in 0..(MaxPhotos - 1) : RemovePhoto(index)
  \/ \E from \in 0..(MaxPhotos - 1) : \E to \in {from - 1, from + 1} : ClickMove(from, to)
  \/ \E index \in 0..(MaxPhotos - 1) : \E caption \in CaptionTexts :
       CaptionChange(index, caption)

SpecSeed == Init /\ [][NextSeed]_vars

\* A storage call that is awaited returns.
UploadReturnsSome ==
  \E outcome \in UploadOutcomes : \E uuid \in Uuids : \E publicUrl \in PublicUrls :
    UploadReturns(outcome, publicUrl, uuid)

\* Batches among removals, every awaited storage call returning.
NextBatch ==
  \/ Mount
  \/ \E index \in 0..(MaxPhotos - 1) : RemovePhoto(index)
  \/ \E files \in FileSelections : \E uuid \in Uuids : HandleImageUpload(files, uuid)
  \/ UploadReturnsSome

SpecBatch == Init /\ [][NextBatch]_vars /\ WF_vars(UploadReturnsSome)

\* ------------------------------------------------------------------ claims
\* The list existingPhotos seeds: the prop itself when it is not empty.
Seeded == IF mounted /\ Len(existingPhotos) > 0 THEN existingPhotos ELSE <<>>

\* C1, as stated: in every reachable state the list the parent last received
\* through onUpload (nothing received counting as the empty list) is the
\* component's photo list.
C1_ParentHasTheList ==
  Val(ParentArr(parentPhotos), heap) = Val(photos, heap)

\* C1, amended: once onUpload has been called, the array the parent received
\* last is the component's photo list, entry by entry; until then the list is
\* what mount seeding left, existingPhotos or the empty list, and the parent
\* has received nothing.
C1_ParentInSync ==
  /\ parentPhotos # <<>> =>
       /\ parentPhotos[1] = photos
       /\ Val(parentPhotos[1], heap) = Val(photos, heap)
  /\ parentPhotos = <<>> => photos = Seeded

\* A caption edit on a list of two entries has been reported to the parent.
C1_Witness ==
  /\ parentPhotos # <<>>
  /\ lastOp.op = "caption"
  /\ Len(photos) >= 2

\* The list as the parent sees it: the values of its entries, in order.
List == Val(photos, heap)

\* v without its entry at index i (from 0).
Without(v, i) == SubSeq(v, 1, i) \o SubSeq(v, i + 2, Len(v))

\* Nothing the component holds changes.
Untouched == UNCHANGED <<photos, heap, parentPhotos, uploading, error, imageUrl, lastOp>>

\* C6: a click on Add with an empty text field changes nothing; with text
\* that is not a well-formed URL it leaves the list and the text, does not
\* call onUpload and sets the error to "Invalid URL format."; with a
\* well-formed URL it appends {url: text, caption: ""} at the end, passes the
\* new list to onUpload and clears the text field.
C6_AddByUrl ==
  [][ClickAdd =>
       /\ imageUrl = "" => Untouched
       /\ imageUrl = "not a url" =>
            /\ UNCHANGED <<photos, heap, parentPhotos, imageUrl, lastOp>>
            /\ error' = <<"Invalid URL format.">>
       /\ imageUrl = "https://example.com/a.jpg" =>
            /\ List' = Append(List, [url |-> "https://example.com/a.jpg", caption |-> ""])
            /\ parentPhotos' = <<photos'>>
            /\ imageUrl' = ""
            /\ error' = error]_vars

\* A URL has just been added after an entry that was there before.
C6_Witness ==
  /\ lastOp.op = "addUrl"
  /\ imageUrl = ""
  /\ Len(photos) >= 2
  /\ List[Len(photos)] = [url |-> "https://example.com/a.jpg", caption |-> ""]

\* C7, as stated: a drop of a row on itself, or with no drop target, leaves
\* the photo list as it was.
C7_DropWithoutTargetIsNoOp ==
  [][\A a \in 0..(MaxPhotos - 1) :
       \A over \in {Null, [id |-> PhotoId(a)]} :
         (a < Len(photos) /\ HandleDragEnd([id |-> PhotoId(a)], over)) => List' = List]_vars

\* Single moves of the entry at index i, one place at a time, until it is at j.
RECURSIVE MoveSteps(_, _, _)
MoveSteps(arr, i, j) ==
  IF i = j THEN arr
  ELSE LET next == IF i < j THEN i + 1 ELSE i - 1
       IN MoveSteps(MovePhoto(arr, i, next)[1], next, j)

\* C8: a drag of the row at index i onto the row at index j # i gives the list
\* that |i - j| single moves of that entry give: the entry is at j and the
\* other entries keep their order.
C8_DragIsRepeatedMoves ==
  [][\A i \in 0..(MaxPhotos - 1) : \A j \in 0..(MaxPhotos - 1) :
       (/\ i < Len(photos) /\ j < Len(photos) /\ i # j
        /\ lastOp'.op = "drag"
        /\ HandleDragEnd([id |-> PhotoId(i)], [id |-> PhotoId(j)])) =>
         /\ List' = Val(MoveSteps(photos, i, j), heap)
         /\ List'[j + 1] = List[i + 1]
         /\ Without(List', j) = Without(List, i)]_vars

\* A drag has just carried an entry over two others, in a list of three
\* different entries.
C8_Witness ==
  /\ lastOp = Op("drag", 2, 0)
  /\ Len(photos) = 3
  /\ Cardinality(Range(List)) = 3

\* C9: for every list the component holds and every index with
\* 0 < index < length, movePhoto(index, index - 1) followed by
\* movePhoto(index - 1, index) gives the list back.
C9_UpThenDownRestores ==
  \A index \in 1..(Len(photos) - 1) :
    LET up == MovePhoto(photos, index, index - 1)
    IN /\ up # <<>>
       /\ up[1] # photos \/ photos[index] = photos[index + 1]
       /\ MovePhoto(up[1], index - 1, index) = <<photos>>

\* A move down has just put the two different seeded entries back in their
\* order.
C9_Witness ==
  /\ lastOp = Op("move", 1, 0)
  /\ Len(photos) = 2
  /\ photos = existingPhotos
  /\ List[1] # List[2]

\* C10: removing the row at index i gives the list without its entry at i,
\* the others in their order, and passes that list to onUpload.
C10_RemoveDeletesOne ==
  [][\A i \in 0..(MaxPhotos - 1) :
       RemovePhoto(i) =>
         /\ List' = Without(List, i)
         /\ Len(photos') = Len(photos) - 1
         /\ parentPhotos' = <<photos'>>]_vars

\* An entry has just been removed from a list of three different entries.
C10_Witness ==
  /\ lastOp.op = "remove"
  /\ Len(photos) = 2
  /\ List[1] # List[2]

\* The parent holds what it held: no onUpload call was made.
ParentKeeps ==
  /\ (parentPhotos' = <<>>) = (parentPhotos = <<>>)
  /\ Val(ParentArr(parentPhotos'), heap') = Val(ParentArr(parentPhotos), heap)

\* The public URLs the storage service can issue for a file of that name.
UrlsOf(name) == {PublicUrl(FileName(u, name)) : u \in Uuids}

\* C2: when the last file of a batch of N valid files has been uploaded and
\* no other handler set the list while the batch was in flight, the list is
\* the list of before followed by N entries with caption "", the k-th with the
\* public URL of the k-th file; onUpload receives that list, and it is the
\* batch's only onUpload call.
C2_BatchAppendsInOrder ==
  /\ [](pc = "upload" /\ during = 0 => photos = batchPhotos)
  /\ [][\A o \in UploadOutcomes : \A u \in Uuids : \A url \in PublicUrls :
          (/\ pc = "upload" /\ during = 0 /\ o.kind = "ok" /\ url # ""
           /\ UploadReturns(o, url, u)) =>
            IF idx < Len(validFiles)
            THEN List' = List /\ ParentKeeps /\ lastOp' = lastOp
            ELSE LET n == Len(validFiles)
                     m == Len(photos)
                 IN /\ Len(photos') = m + n
                    /\ SubSeq(List', 1, m) = List
                    /\ \A k \in 1..n :
                         /\ List'[m + k].caption = ""
                         /\ List'[m + k].url \in UrlsOf(validFiles[k].name)
                    /\ parentPhotos' = <<photos'>>
                    /\ lastOp' = Op("batchDone", n, 0)]_vars
  /\ [][\A files \in FileSelections : \A u \in Uuids :
          HandleImageUpload(files, u) => List' = List /\ ParentKeeps /\ lastOp' = lastOp]_vars

\* A batch of two files has just been appended to a list of one entry that no
\* other handler touched meanwhile.
C2_Witness ==
  /\ lastOp = Op("batchDone", 2, 0)
  /\ Len(photos) = 3
  /\ List[2].url \in UrlsOf("a.jpg")
  /\ List[3].url \in UrlsOf("b.webp")

\* C3: when storage.upload or getPublicUrl fails for a file, the batch ends
\* there: no file is left to upload, the list and what the parent holds are
\* as before, nothing uploaded so far is kept, and the error is the message
\* of the failure.
C3_FailureAbandonsBatch ==
  [][\A o \in UploadOutcomes : \A u \in Uuids : \A url \in PublicUrls :
       (/\ pc = "upload" /\ (o.kind # "ok" \/ url = "")
        /\ UploadReturns(o, url, u)) =>
         /\ List' = List
         /\ ParentKeeps
         /\ pc' = "idle"
         /\ validFiles' = <<>> /\ uploadedPhotos' = <<>> /\ batchPhotos' = <<>>
         /\ ~uploading'
         /\ error' = << IF o.kind = "error" THEN o.message
                        ELSE IF o.kind = "reject" THEN "An unknown error occurred"
                        ELSE "Failed to retrieve public URL" >>]_vars

\* The second file of a batch has just failed, after the first was uploaded.
C3_Witness ==
  /\ lastOp.op = "batchFail"
  /\ lastOp.a = 2
  /\ error = <<"Failed to retrieve public URL">>
  /\ pc = "idle"

\* The files the claim lets through.
Passes(file) ==
  /\ file.type \in {"image/jpeg", "image/png", "image/webp"}
  /\ file.size <= 5242880

\* C4: the files uploaded are those of the selection with a MIME type of
\* image/jpeg, image/png or image/webp and a size of at most 5 MiB, in their
\* order; no other file gives a list entry; a selection without such a file
\* starts no upload, leaves the list and the parent alone, leaves uploading
\* false and sets an error.
C4_OnlyValidFilesUpload ==
  /\ [](\A i \in 1..Len(photos) : \A f \in Files :
          List[i].url \in UrlsOf(f.name) => Passes(f))
  /\ [][\A files \in FileSelections : \A u \in Uuids :
          HandleImageUpload(files, u) =>
            /\ List' = List
            /\ ParentKeeps
            /\ IF SelectSeq(files, Passes) = <<>>
               THEN pc' = "idle" /\ ~uploading' /\ error' # NoError /\ validFiles' = <<>>
               ELSE pc' = "upload" /\ uploading' /\ validFiles' = SelectSeq(files, Passes)]_vars

\* The file of exactly 5 MiB is in the list, from a selection that also held
\* the file of a type that is not allowed.
C4_Witness ==
  /\ lastOp.op = "batchDone"
  /\ error = <<"Unsupported file type: d.gif">>
  /\ \E i \in 1..Len(photos) : List[i].url \in UrlsOf("a.jpg")

\* C5: uploading is true exactly while a batch is in flight, and, every
\* awaited storage call returning, a batch that set it leads to uploading
\* being false again.
C5_UploadingResets ==
  /\ [](uploading <=> pc = "upload")
  /\ uploading ~> ~uploading

\* A batch has just failed and uploading is false.
C5_Witness ==
  /\ lastOp.op = "batchFail"
  /\ ~uploading
  /\ pc = "idle"

\* C11: a caption edit at index i gives the list of before with the caption
\* of the entry at position i replaced and nothing else changed, also when
\* two entries have the same url or come from the same seeded entry.
C11_CaptionEditTouchesOneEntry ==
  [][\A index \in 0..(MaxPhotos - 1) : \A caption \in CaptionTexts :
       CaptionChange(index, caption) =>
         List' = [List EXCEPT ![index + 1].caption = caption]]_vars

\* C12: while a batch is in flight no other handler sets the list, and the
\* list a finished batch writes is the current list followed by the batch's
\* entries, so that no change made by another handler is discarded.
C12_NoListChangeDuringBatch ==
  /\ [](pc = "upload" => during = 0)
  /\ [][\A o \in UploadOutcomes : \A u \in Uuids : \A url \in PublicUrls :
          (/\ pc = "upload" /\ pc' = "idle" /\ o.kind = "ok" /\ url # ""
           /\ UploadReturns(o, url, u)) =>
            /\ Len(photos') = Len(photos) + Len(validFiles)
            /\ SubSeq(List', 1, Len(photos)) = List]_vars

\* C13: within a batch one upload is awaited at a time, in selection order:
\* while the k-th valid file is being uploaded, the upload and the public URL
\* of each of the k-1 files before it are done, and the next upload begins
\* only in the step that pushes the entry of the file before it.
C13_UploadsAreSequential ==
  /\ [](pc = "upload" =>
          /\ idx \in 1..Len(validFiles)
          /\ Len(uploadedPhotos) = idx - 1
          /\ \A k \in 1..(idx - 1) :
               Val(uploadedPhotos, heap)[k].url \in UrlsOf(validFiles[k].name)
          /\ \E u \in Uuids : filePath = FileName(u, validFiles[idx].name))
  /\ [](pc = "idle" => idx = 0 /\ filePath = "" /\ uploadedPhotos = <<>>)
  /\ [][pc = "upload" /\ pc' = "upload" =>
          /\ validFiles' = validFiles
          /\ idx' \in {idx, idx + 1}
          /\ idx' = idx + 1 => Len(uploadedPhotos') = idx]_vars

\* The second file of a batch is being uploaded, the first has its entry.
C13_Witness ==
  /\ pc = "upload"
  /\ idx = 2
  /\ filePath = "u1_b.webp"
  /\ Len(uploadedPhotos) = 1
  /\ Val(uploadedPhotos, heap)[1].url \in UrlsOf("a.jpg")

\* A file the validation refuses, and the message it is refused with.
Refused(file) == ~Passes(file)
RefusalOf(file) ==
  IF file.type \notin {"image/jpeg", "image/png", "image/webp"}
  THEN "Unsupported file type: " \o file.name
  ELSE "File too large: " \o file.name \o " (Max: 5MB)"

\* C14: the error is one message and the latest failure sets it: a selection
\* sets it to the message of its last refused file (clears it when no file
\* is refused), a failing storage call replaces it with its own message, and
\* no other step of these handlers changes it.
C14_LatestFailureWins ==
  [][/\ \A files \in FileSelections : \A u \in Uuids :
          HandleImageUpload(files, u) =>
            error' = IF files = <<>> THEN <<"Please select at least one file.">>
                     ELSE IF SelectSeq(files, Refused) = <<>> THEN NoError
                     ELSE LET bad == SelectSeq(files, Refused)
                          IN <<RefusalOf(bad[Len(bad)])>>
     /\ \A o \in UploadOutcomes : \A u \in Uuids : \A url \in PublicUrls :
          UploadReturns(o, url, u) =>
            error' = IF o.kind = "reject" THEN <<"An unknown error occurred">>
                     ELSE IF o.kind = "error" THEN <<o.message>>
                     ELSE IF url = "" THEN <<"Failed to retrieve public URL">>
                     ELSE error
     /\ error' # error =>
          \/ \E files \in FileSelections : \E u \in Uuids : HandleImageUpload(files, u)
          \/ \E o \in UploadOutcomes : \E u \in Uuids : \E url \in PublicUrls :
               UploadReturns(o, url, u)]_vars

\* A batch is in flight from a selection whose last refused file was c.png.
C14_Witness ==
  /\ pc = "upload"
  /\ error = <<"File too large: c.png (Max: 5MB)">>

\* The list with the entries at positions i and j (from 0) exchanged.
Exchanged(v, i, j) == [v EXCEPT ![i + 1] = v[j + 1], ![j + 1] = v[i + 1]]

\* C15: movePhoto returns without calling updatePhotos when the target is -1
\* or the length; a click on an arrow whose target is out of bounds leaves
\* the list and the parent alone, and a click whose target is in bounds
\* passes the list with the two neighbours exchanged to onUpload.
C15_OutOfBoundsMoveIgnored ==
  /\ [](Len(photos) > 0 =>
          /\ MovePhoto(photos, 0, -1) = <<>>
          /\ MovePhoto(photos, Len(photos) - 1, Len(photos)) = <<>>)
  /\ [][\A from \in 0..(MaxPhotos - 1) : \A to \in {from - 1, from + 1} :
          ClickMove(from, to) =>
            IF to < 0 \/ to >= Len(photos)
            THEN List' = List /\ ParentKeeps /\ lastOp' = lastOp
            ELSE /\ List' = Exchanged(List, from, to)
                 /\ parentPhotos' = <<photos'>>
                 /\ lastOp' = Op("move", to - from, 0)]_vars

\* The last entry of three distinct ones has just been moved up.
C15_Witness ==
  /\ lastOp = Op("move", -1, 0)
  /\ Len(photos) = 3
  /\ Cardinality(Range(List)) = 3
  /\ parentPhotos = <<photos>>

\* C16: the mount effect runs once and makes the list the existingPhotos of
\* that moment (the empty list when it is empty); a later existingPhotos
\* leaves the list, and what the parent holds, as they were.
C16_SeededOnceAtMount ==
  /\ [](~mounted => photos = <<>>)
  /\ [][/\ Mount => /\ ~mounted /\ mounted'
                    /\ List' = Val(existingPhotos, heap)
                    /\ Len(existingPhotos) > 0 => photos' = existingPhotos
        /\ mounted => mounted'
        /\ \A seed \in Seeds : Rerender(seed) => List' = List /\ ParentKeeps]_vars

\* The list is still the seed of the mount, untouched since, while
\* existingPhotos has become another list.
C16_Witness ==
  /\ lastOp.op = "mount"
  /\ Len(photos) = 2
  /\ Len(existingPhotos) = 2
  /\ Val(existingPhotos, heap) # List

\* C17: a batch in flight has uploading true, a file selection is taken only
\* when no batch is in flight, and the batch in flight stays the same batch
\* until it ends.
C17_OneBatchAtATime ==
  /\ [](pc = "upload" => uploading)
  /\ [][\A files \in FileSelections : \A u \in Uuids :
          HandleImageUpload(files, u) => pc = "idle" /\ ~uploading]_vars
  /\ [][pc = "upload" /\ pc' = "upload" =>
          /\ validFiles' = validFiles
          /\ Len(batchPhotos') = Len(batchPhotos)
          /\ idx' >= idx]_vars

\* A batch of two files is in flight and another handler has set the list
\* meanwhile.
C17_Witness ==
  /\ uploading
  /\ pc = "upload"
  /\ Len(validFiles) = 2
  /\ during = 1

\* How many positions of v hold x.
Count(v, x) == Cardinality({i \in 1..Len(v) : v[i] = x})

\* v and w hold the same entries, each as many times.
SameEntries(v, w) ==
  /\ Len(v) = Len(w)
  /\ \A x \in Range(v) \cup Range(w) : Count(v, x) = Count(w, x)

\* C18: after mount, a move up, a move down or a drag (whatever the drop
\* target) leaves the list with the same entries, each as many times; the
\* length changes only in a URL add (by +1), a remove (by -1) and the
\* completion of a batch of N files (by +N).
C18_ReorderKeepsEntries ==
  [][/\ ((\E from \in 0..(MaxPhotos - 1) : \E to \in {from - 1, from + 1} :
            ClickMove(from, to)) \/ DragEnd) => SameEntries(List, List')
     /\ (mounted /\ Len(photos') # Len(photos)) =>
          \/ ClickAdd /\ Len(photos') = Len(photos) + 1
          \/ \E index \in 0..(MaxPhotos - 1) :
               RemovePhoto(index) /\ Len(photos') = Len(photos) - 1
          \/ \E o \in UploadOutcomes : \E u \in Uuids : \E url \in PublicUrls :
               /\ UploadReturns(o, url, u)
               /\ Len(photos') = Len(photos) + Len(validFiles)]_vars

\* C19: a caption edit leaves the contents of the array last passed to
\* onUpload, and of the caller's existingPhotos array, as they were before
\* it; no step changes the contents of existingPhotos.
C19_HandedOutListsAreFrozen ==
  [][/\ \A index \in 0..(MaxPhotos - 1) : \A caption \in CaptionTexts :
          CaptionChange(index, caption) =>
            Val(ParentArr(parentPhotos), heap') = Val(ParentArr(parentPhotos), heap)
     /\ Val(existingPhotos, heap') = Val(existingPhotos, heap)]_vars

====
